---- MODULE Spec2Model ----
(***************************************************************************)
(* Model of the template-switching lifecycle of BeefreeEditor              *)
(* (src/src/BeefreeEditor.tsx, lines 35-217).                              *)
(*                                                                         *)
(* The component keeps one mutable cell, beeInstanceRef, and runs the      *)
(* async function setupEditor from an effect each time props.template or   *)
(* props.onSave changes.  Every run captures the props of its render.  A   *)
(* run suspends at three awaits: fetch, response.json() and bee.start().   *)
(* The external collaborators (the auth proxy and the Beefree SDK widget)  *)
(* settle those awaits with an outcome chosen nondeterministically.        *)
(***************************************************************************)
EXTENDS Integers, Sequences, FiniteSets

VARIABLES
    mounted,         \* the component has rendered at least once
    props,           \* props of the latest render: [template, onSave]
    beeInstanceRef,  \* beeInstanceRef.current: 0 is null, else an instance id
    runs,            \* the runs of setupEditor, in the order they were started
    instances,       \* the BeefreeSDK instances constructed, in order
    displayed,       \* the document shown in the container
    saveEvents,      \* number of save events the editor has emitted
    sinkCalls,       \* number of invocations of the host's onSave sink
    lastSink,        \* the last invocation of the sink: [sink, doc, threw,
                     \* escaped]: which sink, with what, whether it threw,
                     \* whether an exception left the save callback
    lastPayload,     \* the payload of the last save event
    parseErrors,     \* number of 'Failed to parse saved template JSON' reports
    template,        \* App's state: the template handed to the editor
    currentTemplate, \* App's state: the number shown by the status indicator
    proxy,           \* which /proxy/bee-auth implementation answers the fetch
    conversions,     \* the calls of convertFullToSimple and convertSimpleToFull
    clicks,          \* number of clicks on App's "Load Template" buttons
    unmountedRuns,   \* the runs that belong to an editor App has unmounted:
                     \* they write the ref cell of that editor, not this one
    beeInstance      \* two-effect variant: the state beeInstance, 0 is null

vars == <<mounted, props, beeInstanceRef, runs, instances, displayed,
          saveEvents, sinkCalls, lastSink, lastPayload, parseErrors,
          template, currentTemplate, proxy, conversions, clicks, unmountedRuns,
          beeInstance>>

editorVars == <<beeInstanceRef, runs, instances, displayed>>
saveVars == <<saveEvents, sinkCalls, lastSink, lastPayload, parseErrors>>
appVars == <<template, currentTemplate, clicks, unmountedRuns>>
serviceVars == <<proxy, conversions, beeInstance>>

(***************************************************************************)
(* Bounds of the model.                                                    *)
(***************************************************************************)
MaxRuns == 3          \* runs of setupEditor in the lifecycle specification
MaxSaveRuns == 1      \* runs of setupEditor in the save specification
MaxSaves == 1         \* save events
MaxPayloadLen == 2    \* characters of a save payload
MaxProxyRuns == 2     \* runs of setupEditor in the proxy specification
MaxAppRuns == 3       \* runs of setupEditor in the application specification
MaxCalls == 2         \* calls of the conversion helpers
MaxClicks == 3        \* clicks on the buttons of App
MaxRebindRuns == 2    \* runs of setupEditor in the callback specification
MaxRebindSaves == 1   \* save events in the callback specification
MaxLiveRuns == 2      \* runs of setupEditor in the fair specification
MaxEffectRuns == 4    \* effect runs of the two-effect variant
MaxEffectSaves == 1   \* save events of the two-effect variant

(***************************************************************************)
(* Values.                                                                 *)
(***************************************************************************)
NoTemplate == "null"
Templates == {"T1", "T2"}
Sinks == {"onSaveA", "onSaveB"}
Container == "beefree-react-demo"
NoDocument == "nothing"
NoProps == [template |-> NoTemplate, onSave |-> "none"]

Last(s) == s[Len(s)]

(***************************************************************************)
(* JSON.parse on the payload of a save event.  A payload is a sequence of  *)
(* characters over Chars; the grammar is the part of JSON those characters *)
(* can spell: value ::= digits | "[" "]" | "[" value ("," value)* "]".     *)
(* A parsed value is [type, n, items]; a payload that is no JSON text      *)
(* makes JSON.parse throw, which is the value SyntaxError here.            *)
(***************************************************************************)
Chars == {"[", "]", "1", ","}
SyntaxError == [type |-> "SyntaxError", n |-> 0, items |-> <<>>]
JNumber(k) == [type |-> "number", n |-> k, items |-> <<>>]
JArray(xs) == [type |-> "array", n |-> 0, items |-> xs]
NoParse == [ok |-> FALSE, val |-> SyntaxError, next |-> 0]

RECURSIVE ParseDigits(_, _, _)
ParseDigits(s, i, acc) ==
    IF i <= Len(s) /\ s[i] = "1"
    THEN ParseDigits(s, i + 1, 10 * acc + 1)
    ELSE [ok |-> TRUE, val |-> JNumber(acc), next |-> i]

RECURSIVE ParseValue(_, _)
RECURSIVE ParseElements(_, _, _)
ParseValue(s, i) ==
    IF i > Len(s) THEN NoParse
    ELSE IF s[i] = "1" THEN ParseDigits(s, i, 0)
    ELSE IF s[i] = "["
         THEN IF i + 1 <= Len(s) /\ s[i + 1] = "]"
              THEN [ok |-> TRUE, val |-> JArray(<<>>), next |-> i + 2]
              ELSE ParseElements(s, i + 1, <<>>)
    ELSE NoParse

ParseElements(s, i, acc) ==
    LET v == ParseValue(s, i) IN
    IF ~v.ok \/ v.next > Len(s) THEN NoParse
    ELSE IF s[v.next] = "]"
         THEN [ok |-> TRUE, val |-> JArray(Append(acc, v.val)), next |-> v.next + 1]
    ELSE IF s[v.next] = ","
         THEN ParseElements(s, v.next + 1, Append(acc, v.val))
    ELSE NoParse

JSONParse(s) ==
    LET r == ParseValue(s, 1) IN
    IF r.ok /\ r.next = Len(s) + 1 THEN r.val ELSE SyntaxError

RECURSIVE SeqsUpTo(_)
SeqsUpTo(k) ==
    IF k = 0 THEN {<<>>}
    ELSE LET shorter == SeqsUpTo(k - 1) IN
         shorter \cup {Append(q, c) : q \in {x \in shorter : Len(x) = k - 1}, c \in Chars}

Payloads == SeqsUpTo(MaxPayloadLen) \ {<<>>}

(***************************************************************************)
(* A run of setupEditor.                                                   *)
(*   tmpl, sink : props.template and props.onSave captured by the run      *)
(*   pc         : "warned"    returned at the guard clause                 *)
(*                "loaded"    load() returned, the run is over             *)
(*                "rejected"  load() threw, the run's promise rejected     *)
(*                "fetch"     awaiting fetch()                             *)
(*                "json"      awaiting response.json()                     *)
(*                "start"     awaiting bee.start()                         *)
(*                "done"      start resolved, the run is over              *)
(*                "caught"    the catch block logged an error, run is over *)
(*   target     : the instance load() was called on, 0 if none             *)
(*   token      : the token this run obtained, 0 if none                   *)
(*   inst       : the instance this run constructed, 0 if none             *)
(*   err        : the error the run ended with, "none" if none             *)
(*   resp       : how the run's fetch settled, "none" while it has not     *)
(*   threw      : the load() this run called threw                         *)
(*   fetches    : the number of token fetches this run has issued          *)
(*   authority  : what the remote authority answered to the proxy for the  *)
(*                run's fetch, "none" when that is not modelled            *)
(***************************************************************************)
NewRun(t, s) ==
    [tmpl |-> t, sink |-> s, pc |-> "warned", target |-> 0, token |-> 0,
     inst |-> 0, err |-> "none", resp |-> "none", threw |-> FALSE,
     fetches |-> 0, authority |-> "none"]

Pending(r) == r.pc \in {"fetch", "json", "start"}
Fetched(r) == r.pc \in {"fetch", "json", "start", "done", "caught"}
PromiseResolved(r) == r.pc \in {"warned", "loaded", "done", "caught"}
PromiseRejected(r) == r.pc = "rejected"
Logged(r) == r.pc = "caught"

\* The fetch a run issues when it enters (or re-enters) the await of fetch.
CountFetch(r) == IF r.pc = "fetch" THEN [r EXCEPT !.fetches = @ + 1] ELSE r

NumFetches == Cardinality({i \in 1..Len(runs) : Fetched(runs[i])})
NumTokens == Cardinality({i \in 1..Len(runs) : runs[i].token # 0})
NumStarts == Cardinality({i \in 1..Len(runs) : runs[i].inst # 0})
NumLoads == Cardinality({i \in 1..Len(runs) : runs[i].target # 0})

(***************************************************************************)
(* The widget's load(template): it either takes the document, which then   *)
(* replaces the one shown, or it throws and the document shown stays.      *)
(***************************************************************************)
LoadOutcomes == {"ok", "throw"}
Load(shown, t, outcome) == IF outcome = "ok" THEN t ELSE shown

(***************************************************************************)
(* Variants of setupEditor's first part with a plausible slip: one that    *)
(* skips a request while an earlier acquisition is in flight, and one      *)
(* without the guard clause on props.template.                             *)
(***************************************************************************)
SetupEditorSingleFlight(t, s, ref, shown, outcome) ==
    IF t = NoTemplate \/ (ref = 0 /\ \E i \in 1..Len(runs) : Pending(runs[i]))
    THEN [run |-> NewRun(t, s), shown |-> shown]
    ELSE IF ref # 0
         THEN [run |-> [NewRun(t, s) EXCEPT
                            !.pc = IF outcome = "ok" THEN "loaded" ELSE "rejected",
                            !.target = ref,
                            !.err = IF outcome = "ok" THEN "none" ELSE "load"],
               shown |-> Load(shown, t, outcome)]
         ELSE [run |-> [NewRun(t, s) EXCEPT !.pc = "fetch"], shown |-> shown]

SetupEditorNoGuard(t, s, ref, shown, outcome) ==
    IF ref # 0
    THEN [run |-> [NewRun(t, s) EXCEPT
                       !.pc = IF outcome = "ok" THEN "loaded" ELSE "rejected",
                       !.target = ref,
                       !.err = IF outcome = "ok" THEN "none" ELSE "load"],
          shown |-> Load(shown, t, outcome)]
    ELSE [run |-> [NewRun(t, s) EXCEPT !.pc = "fetch"], shown |-> shown]

(***************************************************************************)
(* A setupEditor that, with the handle present, calls load and then goes   *)
(* on to acquire a token as well.                                          *)
(***************************************************************************)
SetupEditorLoadsAndAcquires(t, s, ref, shown, outcome) ==
    IF t = NoTemplate
    THEN [run |-> NewRun(t, s), shown |-> shown]
    ELSE IF ref # 0
         THEN [run |-> [NewRun(t, s) EXCEPT !.pc = "fetch", !.target = ref],
               shown |-> Load(shown, t, outcome)]
         ELSE [run |-> [NewRun(t, s) EXCEPT !.pc = "fetch"], shown |-> shown]

(***************************************************************************)
(* setupEditor up to its first await: the guard clause, the test of        *)
(* beeInstanceRef.current, and either the call of load or the issue of     *)
(* the token fetch.  The result is the run and the document shown.         *)
(***************************************************************************)
SetupEditor(t, s, ref, shown, outcome) ==
    IF t = NoTemplate
    THEN [run |-> NewRun(t, s), shown |-> shown]
    ELSE IF ref # 0
         THEN [run |-> [NewRun(t, s) EXCEPT
                            !.pc = IF outcome = "ok" THEN "loaded" ELSE "rejected",
                            !.target = ref,
                            !.err = IF outcome = "ok" THEN "none" ELSE "load"],
               shown |-> Load(shown, t, outcome)]
         ELSE [run |-> [NewRun(t, s) EXCEPT !.pc = "fetch"], shown |-> shown]

(***************************************************************************)
(* A catch block that rethrows instead of logging, and one that starts the *)
(* acquisition over.                                                       *)
(***************************************************************************)
CatchBlockRetries(r, e) == [r EXCEPT !.pc = "fetch", !.err = e]

CatchBlockRethrows(r, e) == [r EXCEPT !.pc = "rejected", !.err = e]

(***************************************************************************)
(* The catch block of setupEditor: the error is logged and the run ends.   *)
(***************************************************************************)
CatchBlock(r, e) == [r EXCEPT !.pc = "caught", !.err = e]

(***************************************************************************)
(* The handling of the settled fetch without the test of response.ok.      *)
(***************************************************************************)
AfterFetchNoStatusCheck(r, outcome) ==
    IF outcome = "reject" THEN [r EXCEPT !.pc = "caught", !.err = "fetch"]
    ELSE [r EXCEPT !.pc = "json"]

(***************************************************************************)
(* After fetch settles: a rejected fetch and a response that is not ok     *)
(* both throw into the catch block; an ok response is read as JSON.        *)
(***************************************************************************)
FetchOutcomes == {"ok", "notOk", "reject"}
AfterFetch(r, outcome) ==
    IF outcome = "reject" THEN CatchBlock(r, "fetch")
    ELSE IF outcome = "notOk" THEN CatchBlock(r, "status")
    ELSE [r EXCEPT !.pc = "json"]

(***************************************************************************)
(* The continuation after the token that reads the template of the latest  *)
(* render instead of the one its own render captured.                      *)
(***************************************************************************)
AfterTokenLatestProps(r, tok, id) ==
    [run |-> [r EXCEPT !.pc = "start", !.token = tok, !.inst = id],
     bee |-> [token |-> tok, sink |-> r.sink, container |-> Container,
              doc |-> props.template, status |-> "starting"],
     ref |-> id]

(***************************************************************************)
(* The continuation after the token that never stores the instance in the  *)
(* ref.                                                                    *)
(***************************************************************************)
AfterTokenNoStore(r, tok, id) ==
    [run |-> [r EXCEPT !.pc = "start", !.token = tok, !.inst = id],
     bee |-> [token |-> tok, sink |-> r.sink, container |-> Container,
              doc |-> r.tmpl, status |-> "starting"],
     ref |-> 0]

(***************************************************************************)
(* After response.json() resolves with the token: the configuration is     *)
(* built around the run's props, the instance is constructed, stored in    *)
(* beeInstanceRef, and start is called with the run's template.  The       *)
(* result is the run, the new instance and the new value of the ref.       *)
(***************************************************************************)
AfterToken(r, tok, id) ==
    [run |-> [r EXCEPT !.pc = "start", !.token = tok, !.inst = id],
     bee |-> [token |-> tok, sink |-> r.sink, container |-> Container,
              doc |-> r.tmpl, status |-> "starting"],
     ref |-> id]

(***************************************************************************)
(* After bee.start() settles: on success the run ends; a rejection is      *)
(* caught and logged.  Neither path touches beeInstanceRef.                *)
(***************************************************************************)
StartOutcomes == {"ok", "reject"}
AfterStart(r, outcome) ==
    IF outcome = "ok" THEN [r EXCEPT !.pc = "done"] ELSE CatchBlock(r, "start")

(***************************************************************************)
(* An onSave that hands the sink whatever the parse gave, with no catch.   *)
(***************************************************************************)
OnSaveUnchecked(pageJson, sinkThrows) ==
    [called |-> TRUE, doc |-> JSONParse(pageJson), logged |-> FALSE,
     escaped |-> sinkThrows]

(***************************************************************************)
(* An onSave whose try block holds the parse only, the sink being called   *)
(* after it.                                                               *)
(***************************************************************************)
OnSaveSinkOutsideTry(pageJson, sinkThrows) ==
    LET templateObject == JSONParse(pageJson) IN
    IF templateObject = SyntaxError
    THEN [called |-> FALSE, doc |-> SyntaxError, logged |-> TRUE,
          escaped |-> FALSE]
    ELSE [called |-> TRUE, doc |-> templateObject, logged |-> FALSE,
          escaped |-> sinkThrows]

(***************************************************************************)
(* beeConfig.onSave: parse the payload and hand the result to the sink     *)
(* captured in the configuration; whatever is thrown inside the try block, *)
(* by JSON.parse or by the sink, is caught and logged as a parse failure.  *)
(* The result tells whether the sink was invoked, with what, whether the   *)
(* error was logged, and whether an exception left the callback.           *)
(***************************************************************************)
OnSave(pageJson, sinkThrows) ==
    LET templateObject == JSONParse(pageJson) IN
    IF templateObject = SyntaxError
    THEN [called |-> FALSE, doc |-> SyntaxError, logged |-> TRUE,
          escaped |-> FALSE]
    ELSE [called |-> TRUE, doc |-> templateObject, logged |-> sinkThrows,
          escaped |-> FALSE]

(***************************************************************************)
(* Initial state: nothing rendered, no instance, nothing shown.            *)
(***************************************************************************)
NoSink == [sink |-> "none", doc |-> SyntaxError, threw |-> FALSE,
           escaped |-> FALSE]

InitComponent ==
    /\ mounted = FALSE
    /\ props = NoProps
    /\ beeInstanceRef = 0
    /\ runs = <<>>
    /\ instances = <<>>
    /\ displayed = NoDocument
    /\ saveEvents = 0
    /\ sinkCalls = 0
    /\ lastSink = NoSink
    /\ lastPayload = <<>>
    /\ parseErrors = 0
    /\ template = NoTemplate
    /\ currentTemplate = 1
    /\ conversions = <<>>
    /\ clicks = 0
    /\ unmountedRuns = {}
    /\ beeInstance = 0

Init == InitComponent /\ proxy = "none"

(***************************************************************************)
(* The host renders the component with props (t, s).  The effect runs on   *)
(* the first render and whenever one of its dependencies, props.template   *)
(* or props.onSave, differs from the previous render; it calls setupEditor *)
(* and drops the promise.  What the host's own state does in that step is  *)
(* said by the specification that uses the action.                         *)
(***************************************************************************)
Render(t, s, outcome) ==
    /\ ~mounted \/ props.template # t \/ props.onSave # s
    /\ LET res == SetupEditor(t, s, beeInstanceRef, displayed, outcome) IN
       /\ runs' = Append(runs, [CountFetch(res.run) EXCEPT
                                   !.threw = res.run.target # 0 /\ outcome = "throw"])
       /\ displayed' = res.shown
    /\ mounted' = TRUE
    /\ props' = [template |-> t, onSave |-> s]
    /\ UNCHANGED <<beeInstanceRef, instances>>
    /\ UNCHANGED saveVars
    /\ UNCHANGED serviceVars

FetchSettles(i, outcome) ==
    /\ runs[i].pc = "fetch"
    /\ runs' = [runs EXCEPT ![i] = [CountFetch(AfterFetch(runs[i], outcome))
                                        EXCEPT !.resp = outcome]]
    /\ UNCHANGED <<mounted, props, beeInstanceRef, instances, displayed>>
    /\ UNCHANGED saveVars
    /\ UNCHANGED appVars
    /\ UNCHANGED serviceVars

JsonResolves(i) ==
    /\ runs[i].pc = "json"
    /\ LET res == AfterToken(runs[i], NumTokens + 1, Len(instances) + 1) IN
       /\ runs' = [runs EXCEPT ![i] = res.run]
       /\ instances' = Append(instances, res.bee)
       /\ beeInstanceRef' = IF i \in unmountedRuns
                            THEN beeInstanceRef
                            ELSE res.ref
    /\ UNCHANGED <<mounted, props, displayed>>
    /\ UNCHANGED saveVars
    /\ UNCHANGED appVars
    /\ UNCHANGED serviceVars

JsonRejects(i) ==
    /\ runs[i].pc = "json"
    /\ runs' = [runs EXCEPT ![i] = CountFetch(CatchBlock(runs[i], "body"))]
    /\ UNCHANGED <<mounted, props, beeInstanceRef, instances, displayed>>
    /\ UNCHANGED saveVars
    /\ UNCHANGED appVars
    /\ UNCHANGED serviceVars

StartSettles(i, outcome) ==
    /\ runs[i].pc = "start"
    /\ runs' = [runs EXCEPT ![i] = CountFetch(AfterStart(runs[i], outcome))]
    /\ instances' = [instances EXCEPT ![runs[i].inst].status =
                         IF outcome = "ok" THEN "started" ELSE "failed"]
    /\ displayed' = IF outcome = "ok"
                     THEN instances[runs[i].inst].doc
                     ELSE displayed
    /\ UNCHANGED <<mounted, props, beeInstanceRef>>
    /\ UNCHANGED saveVars
    /\ UNCHANGED appVars
    /\ UNCHANGED serviceVars

(***************************************************************************)
(* A save event handled by the onSave of the latest render instead of the  *)
(* one in the configuration the editor was started with.                   *)
(***************************************************************************)
SaveEventLatestProps(k, pageJson, sinkThrows) ==
    /\ instances[k].status = "started"
    /\ LET res == OnSave(pageJson, sinkThrows) IN
       /\ sinkCalls' = IF res.called THEN sinkCalls + 1 ELSE sinkCalls
       /\ lastSink' = IF res.called
                      THEN [sink |-> props.onSave, doc |-> res.doc,
                            threw |-> sinkThrows, escaped |-> res.escaped]
                      ELSE lastSink
       /\ parseErrors' = IF res.logged THEN parseErrors + 1 ELSE parseErrors
    /\ saveEvents' = saveEvents + 1
    /\ lastPayload' = pageJson
    /\ UNCHANGED <<mounted, props>>
    /\ UNCHANGED editorVars
    /\ UNCHANGED appVars
    /\ UNCHANGED serviceVars

(***************************************************************************)
(* A started editor emits a save event with a payload; the onSave of the   *)
(* configuration it was started with handles it.                           *)
(***************************************************************************)
SaveEvent(k, pageJson, sinkThrows) ==
    /\ instances[k].status = "started"
    /\ LET res == OnSave(pageJson, sinkThrows) IN
       /\ sinkCalls' = IF res.called THEN sinkCalls + 1 ELSE sinkCalls
       /\ lastSink' = IF res.called
                      THEN [sink |-> instances[k].sink, doc |-> res.doc,
                            threw |-> sinkThrows, escaped |-> res.escaped]
                      ELSE lastSink
       /\ parseErrors' = IF res.logged THEN parseErrors + 1 ELSE parseErrors
    /\ saveEvents' = saveEvents + 1
    /\ lastPayload' = pageJson
    /\ UNCHANGED <<mounted, props>>
    /\ UNCHANGED editorVars
    /\ UNCHANGED appVars
    /\ UNCHANGED serviceVars

(***************************************************************************)
(* A save event carries a payload; the host's sink may throw when it is    *)
(* invoked, which it is only for a payload that parses.                    *)
(***************************************************************************)
SaveInputs ==
    {in \in Payloads \X BOOLEAN : JSONParse(in[1]) = SyntaxError => in[2] = FALSE}

RenderInputs == (Templates \cup {NoTemplate}) \X Sinks \X LoadOutcomes

Settle ==
    \/ \E i \in 1..Len(runs), o \in FetchOutcomes : FetchSettles(i, o)
    \/ \E i \in 1..Len(runs) : JsonResolves(i)
    \/ \E i \in 1..Len(runs) : JsonRejects(i)
    \/ \E i \in 1..Len(runs), o \in StartOutcomes : StartSettles(i, o)

(***************************************************************************)
(* The lifecycle: renders and the settling of the awaits, in any order.    *)
(***************************************************************************)
Next ==
    \/ \E in \in RenderInputs :
           /\ Len(runs) < MaxRuns
           /\ Render(in[1], in[2], in[3])
           /\ UNCHANGED appVars
    \/ Settle

Spec == Init /\ [][Next]_vars

(***************************************************************************)
(* The lifecycle under fairness: every await of every run settles, with    *)
(* one outcome or another.                                                 *)
(***************************************************************************)
RunSettles(i) ==
    /\ i <= Len(runs)
    /\ \/ \E o \in FetchOutcomes : FetchSettles(i, o)
       \/ JsonResolves(i)
       \/ JsonRejects(i)
       \/ \E o \in StartOutcomes : StartSettles(i, o)

NextLive ==
    \/ \E in \in RenderInputs :
           /\ Len(runs) < MaxLiveRuns
           /\ Render(in[1], in[2], in[3])
           /\ UNCHANGED appVars
    \/ Settle

SpecLive ==
    /\ Init
    /\ [][NextLive]_vars
    /\ \A i \in 1..MaxLiveRuns : WF_vars(RunSettles(i))

(***************************************************************************)
(* The lifecycle together with the save events of the started editor.      *)
(***************************************************************************)
NextSave ==
    \/ \E in \in RenderInputs :
           /\ Len(runs) < MaxSaveRuns
           /\ Render(in[1], in[2], in[3])
           /\ UNCHANGED appVars
    \/ Settle
    \/ \E k \in 1..Len(instances), in \in SaveInputs :
           saveEvents < MaxSaves /\ SaveEvent(k, in[1], in[2])

SpecSave == Init /\ [][NextSave]_vars

(***************************************************************************)
(* Renders with changing onSave and save events of one character.          *)
(***************************************************************************)
RebindInputs == {in \in SaveInputs : Len(in[1]) = 1}

NextRebind ==
    \/ \E in \in RenderInputs :
           /\ Len(runs) < MaxRebindRuns
           /\ Render(in[1], in[2], in[3])
           /\ UNCHANGED appVars
    \/ Settle
    \/ \E k \in 1..Len(instances), in \in RebindInputs :
           saveEvents < MaxRebindSaves /\ SaveEvent(k, in[1], in[2])

SpecRebind == Init /\ [][NextRebind]_vars

(***************************************************************************)
(* The endpoint /proxy/bee-auth, in the two versions the documentation     *)
(* gives.  The authority grants (2xx with the token as JSON), rejects with *)
(* a JSON error body, rejects with a body that is no JSON, or cannot be    *)
(* reached.                                                                *)
(***************************************************************************)
RemoteOutcomes == {"granted", "rejected", "rejectedText", "unreachable"}
Remote(o) == [reached |-> o # "unreachable",
              success |-> o = "granted",
              json    |-> o \in {"granted", "rejected"}]
ProxyVariants == {"README", "recipe"}
ProxyFailure == [status |-> 500, body |-> "proxyError"]

\* README.md: axios.post rejects when there is no response and when the
\* status is outside 2xx; the catch block answers 500.
ProxyReadme(o) ==
    IF Remote(o).reached /\ Remote(o).success
    THEN [status |-> 200, body |-> o]
    ELSE ProxyFailure

\* loading-template-recipe.md: fetch rejects only when there is no response,
\* response.json() rejects when the body is no JSON; any JSON body, whatever
\* its status, is sent on with res.json(data), that is with status 200.
ProxyRecipe(o) ==
    IF Remote(o).reached /\ Remote(o).json
    THEN [status |-> 200, body |-> o]
    ELSE ProxyFailure

ProxyAuth(variant, o) ==
    IF variant = "README" THEN ProxyReadme(o) ELSE ProxyRecipe(o)

\* response.ok
ResponseOk(status) == 200 <= status /\ status <= 299

InitProxy == InitComponent /\ proxy \in ProxyVariants

(***************************************************************************)
(* The fetch of run i is answered by the proxy, which asked the authority. *)
(***************************************************************************)
FetchSettlesViaProxy(i, o) ==
    /\ runs[i].pc = "fetch"
    /\ LET answer == ProxyAuth(proxy, o)
           outcome == IF ResponseOk(answer.status) THEN "ok" ELSE "notOk"
       IN runs' = [runs EXCEPT ![i] =
                       [CountFetch(AfterFetch(runs[i], outcome))
                            EXCEPT !.resp = outcome, !.authority = answer.body]]
    /\ UNCHANGED <<mounted, props, beeInstanceRef, instances, displayed>>
    /\ UNCHANGED saveVars
    /\ UNCHANGED appVars
    /\ UNCHANGED serviceVars

NextProxy ==
    \/ \E in \in RenderInputs :
           /\ Len(runs) < MaxProxyRuns
           /\ Render(in[1], in[2], in[3])
           /\ UNCHANGED appVars
    \/ \E i \in 1..Len(runs), o \in RemoteOutcomes : FetchSettlesViaProxy(i, o)
    \/ \E i \in 1..Len(runs) : JsonResolves(i)
    \/ \E i \in 1..Len(runs) : JsonRejects(i)
    \/ \E i \in 1..Len(runs), o \in StartOutcomes : StartSettles(i, o)

SpecProxy == InitProxy /\ [][NextProxy]_vars

(***************************************************************************)
(* App: the state template (null until the mount effect) and the number    *)
(* currentTemplate shown by the status indicator and the buttons.  The     *)
(* editor is rendered only while template is set; handleSave is a new      *)
(* function in every render of App.                                        *)
(***************************************************************************)
TemplateNumbers == {1, 2}
\* A template2Data that is missing.
TemplateDataMissing(n) == IF n = 1 THEN "T1" ELSE NoTemplate

TemplateData(n) == IF n = 1 THEN "T1" ELSE "T2"
HandleSave(previous) == IF previous = "onSaveA" THEN "onSaveB" ELSE "onSaveA"

\* The render of App: template ? <BeefreeEditor .../> : <p>.  Without a
\* template the editor leaves the tree.  An editor mounted later is a new
\* component with a ref cell of its own, which starts as null; the runs of
\* the editor that left go on and write the cell of that editor.
AppRender(t, s, outcome) ==
    IF t = NoTemplate
    THEN /\ mounted' = FALSE
         /\ props' = NoProps
         /\ beeInstanceRef' = 0
         /\ displayed' = NoDocument
         /\ unmountedRuns' = 1..Len(runs)
         /\ UNCHANGED <<runs, instances>>
         /\ UNCHANGED saveVars
         /\ UNCHANGED serviceVars
    ELSE /\ Render(t, s, outcome)
         /\ UNCHANGED unmountedRuns

\* The mount effect: setTemplate(template1Data), setCurrentTemplate(1); the
\* render that follows mounts the editor.  It runs once, after the first
\* render of App, when no run of the editor exists yet.
AppMount(outcome) ==
    /\ template = NoTemplate
    /\ runs = <<>>
    /\ template' = TemplateData(1)
    /\ currentTemplate' = 1
    /\ clicks' = clicks
    /\ AppRender(TemplateData(1), HandleSave(props.onSave), outcome)

\* A loadTemplate that renders whether or not the state changed.
LoadTemplateAlwaysRenders(n, outcome) ==
    /\ runs # <<>>
    /\ template' = TemplateData(n)
    /\ currentTemplate' = n
    /\ clicks' = clicks + 1
    /\ AppRender(TemplateData(n), HandleSave(props.onSave), outcome)

\* A loadTemplate that leaves setCurrentTemplate out.
LoadTemplateKeepsNumber(n, outcome) ==
    /\ runs # <<>>
    /\ template' = TemplateData(n)
    /\ currentTemplate' = currentTemplate
    /\ clicks' = clicks + 1
    /\ IF template = TemplateData(n)
       THEN UNCHANGED <<mounted, props, editorVars, saveVars, serviceVars,
                        unmountedRuns>>
       ELSE AppRender(TemplateData(n), HandleSave(props.onSave), outcome)

\* A click on "Load Template n", possible once the mount effect has run:
\* loadTemplate(data, n).  State that does not change causes no render.
LoadTemplate(n, outcome) ==
    /\ runs # <<>>
    /\ template' = TemplateData(n)
    /\ currentTemplate' = n
    /\ clicks' = clicks + 1
    /\ IF template = TemplateData(n) /\ currentTemplate = n
       THEN UNCHANGED <<mounted, props, editorVars, saveVars, serviceVars,
                        unmountedRuns>>
       ELSE AppRender(TemplateData(n), HandleSave(props.onSave), outcome)

NextApp ==
    \/ \E o \in LoadOutcomes : AppMount(o)
    \/ \E n \in TemplateNumbers, o \in LoadOutcomes :
           /\ Len(runs) < MaxAppRuns
           /\ clicks < MaxClicks
           /\ LoadTemplate(n, o)
    \/ Settle

SpecApp == Init /\ [][NextApp]_vars

(***************************************************************************)
(* convertFullToSimple and convertSimpleToFull.  A call is a record with   *)
(* the request it sent, its position, the response it got, and how it      *)
(* ended: the value returned, or the error thrown after console.error.     *)
(***************************************************************************)
ConvertFunctions == {"convertFullToSimple", "convertSimpleToFull"}
ResponseBodies == {<<"1">>, <<"[", "]">>, <<"[">>, <<"1", ",">>}
ConvertResponses ==
    {[kind |-> "rejected", status |-> 0, body |-> <<>>]}
    \cup {[kind |-> "response", status |-> st, body |-> b] :
              st \in {200, 500}, b \in ResponseBodies}

ConvertRequest(fn, arg) ==
    IF fn = "convertFullToSimple"
    THEN [endpoint |-> "full-to-simple-json", key |-> "page", value |-> arg]
    ELSE [endpoint |-> "simple-to-full-json", key |-> "template", value |-> arg]

NewCall(fn, arg) ==
    [fn |-> fn, request |-> ConvertRequest(fn, arg), requests |-> 1,
     pc |-> "fetch", response |-> [kind |-> "none", status |-> 0, body |-> <<>>],
     result |-> SyntaxError, error |-> "none", logged |-> 0]

\* A catch block that logs and returns undefined instead of throwing again.
ConvertCatchSwallows(c, e) ==
    [c EXCEPT !.pc = "returned", !.error = e, !.logged = @ + 1]

\* catch (error) { console.error(...); throw error; }
ConvertCatch(c, e) ==
    [c EXCEPT !.pc = "thrown", !.error = e, !.logged = @ + 1]

\* After the await of fetch: a rejection goes to the catch block, a response
\* that is not ok has its text read, an ok response has its JSON read.
ConvertAfterFetch(c, resp) ==
    IF resp.kind = "rejected" THEN ConvertCatch(c, "fetch")
    ELSE IF ~ResponseOk(resp.status)
         THEN [c EXCEPT !.pc = "text", !.response = resp]
         ELSE [c EXCEPT !.pc = "json", !.response = resp]

\* After the await of response.text(): new Error("API call failed ...") is
\* thrown; a rejected read is thrown as it is.
ConvertAfterText(c, outcome) ==
    IF outcome = "ok" THEN ConvertCatch(c, "status") ELSE ConvertCatch(c, "text")

\* After the await of response.json(): the parsed body is returned; a body
\* that is no JSON rejects with a SyntaxError.
ConvertAfterJson(c) ==
    LET parsed == JSONParse(c.response.body) IN
    IF parsed = SyntaxError
    THEN ConvertCatch(c, "SyntaxError")
    ELSE [c EXCEPT !.pc = "returned", !.result = parsed]

ConvertCall(fn, arg) ==
    /\ conversions' = Append(conversions, NewCall(fn, arg))
    /\ UNCHANGED <<mounted, props, proxy, beeInstance>>
    /\ UNCHANGED editorVars
    /\ UNCHANGED saveVars
    /\ UNCHANGED appVars

ConvertFetchSettles(k, resp) ==
    /\ conversions[k].pc = "fetch"
    /\ conversions' = [conversions EXCEPT ![k] = ConvertAfterFetch(@, resp)]
    /\ UNCHANGED <<mounted, props, proxy, beeInstance>>
    /\ UNCHANGED editorVars
    /\ UNCHANGED saveVars
    /\ UNCHANGED appVars

ConvertTextSettles(k, outcome) ==
    /\ conversions[k].pc = "text"
    /\ conversions' = [conversions EXCEPT ![k] = ConvertAfterText(@, outcome)]
    /\ UNCHANGED <<mounted, props, proxy, beeInstance>>
    /\ UNCHANGED editorVars
    /\ UNCHANGED saveVars
    /\ UNCHANGED appVars

ConvertJsonSettles(k) ==
    /\ conversions[k].pc = "json"
    /\ conversions' = [conversions EXCEPT ![k] = ConvertAfterJson(@)]
    /\ UNCHANGED <<mounted, props, proxy, beeInstance>>
    /\ UNCHANGED editorVars
    /\ UNCHANGED saveVars
    /\ UNCHANGED appVars

NextConvert ==
    \/ \E fn \in ConvertFunctions, arg \in Templates :
           Len(conversions) < MaxCalls /\ ConvertCall(fn, arg)
    \/ \E k \in 1..Len(conversions), resp \in ConvertResponses :
           ConvertFetchSettles(k, resp)
    \/ \E k \in 1..Len(conversions), o \in {"ok", "reject"} :
           ConvertTextSettles(k, o)
    \/ \E k \in 1..Len(conversions) : ConvertJsonSettles(k)

SpecConvert == Init /\ [][NextConvert]_vars

(***************************************************************************)
(* The two-effect variant of BeefreeEditor (src/unnamed/part_000).  The    *)
(* instance is held in the state beeInstance.  The first effect runs once, *)
(* on mount, and calls initializeEditor; the second runs on mount and when *)
(* props.template changes, and calls load if the instance exists.  The     *)
(* runs of both effects are recorded in runs: the first record is the run  *)
(* of initializeEditor, with pc "fetch", "json", "create" (waiting for the *)
(* callback of bee.create), "done" (the callback has called start, whose   *)
(* promise nobody awaits) or "rejected" (nothing catches in this variant); *)
(* the others are runs of the template effect, with pc "skipped",          *)
(* "loaded" or "rejected".  An instance is "creating" until the callback,  *)
(* "starting" until the promise of start settles, then "started" or        *)
(* "failed".  The load of the template effect is called with no try: when  *)
(* it throws, the error leaves the effect, no error boundary is above the  *)
(* component, and React unmounts the tree, the state beeInstance with it;  *)
(* the container leaves the page, so nothing is displayed any more.        *)
(***************************************************************************)
InitializeEditor(t, s) == CountFetch([NewRun(t, s) EXCEPT !.pc = "fetch"])

\* if (beeInstance && props.template) beeInstance.load(props.template)
TemplateEffect(t, s, instance, shown, outcome) ==
    IF instance # 0 /\ t # NoTemplate
    THEN [run |-> [NewRun(t, s) EXCEPT
                       !.pc = IF outcome = "ok" THEN "loaded" ELSE "rejected",
                       !.target = instance,
                       !.err = IF outcome = "ok" THEN "none" ELSE "load",
                       !.threw = outcome # "ok"],
          shown |-> Load(shown, t, outcome)]
    ELSE [run |-> [NewRun(t, s) EXCEPT !.pc = "skipped"], shown |-> shown]

\* await fetch(...): a rejection ends initializeEditor; response.ok is not
\* tested, so any response goes on to response.json().
InitializeAfterFetch(r, outcome) ==
    IF outcome = "reject"
    THEN [r EXCEPT !.pc = "rejected", !.err = "fetch", !.resp = outcome]
    ELSE [r EXCEPT !.pc = "json", !.resp = outcome]

\* new BeefreeSDK(token); bee.create(beeConfig, callback)
InitializeAfterToken(r, tok, id) ==
    [run |-> [r EXCEPT !.pc = "create", !.token = tok, !.inst = id],
     bee |-> [token |-> tok, sink |-> r.sink, container |-> Container,
              doc |-> NoDocument, status |-> "creating"]]

\* The callback of bee.create: setBeeInstance(instance), then
\* instance.start(props.template) with the props of the mount render.  The
\* promise start returns is not awaited: the callback returns with the
\* start pending.
CreateCallback(r, bee) ==
    [run |-> [r EXCEPT !.pc = "done"],
     bee |-> [bee EXCEPT !.doc = r.tmpl, !.status = "starting"],
     state |-> r.inst]

\* The promise of start settles: resolved, the editor shows the document it
\* was started with; rejected, the rejection is handled by nobody.
StartPromiseSettles(r, bee, shown, outcome) ==
    [run |-> IF outcome = "ok" THEN r
             ELSE [r EXCEPT !.pc = "rejected", !.err = "start"],
     bee |-> [bee EXCEPT !.status = IF outcome = "ok" THEN "started"
                                                       ELSE "failed"],
     shown |-> IF outcome = "ok" THEN bee.doc ELSE shown]

\* The onSave of the configuration: props.onSave(JSON.parse(pageJson)), with
\* no try: a payload that is no JSON throws out of the callback before the
\* sink is called, and what the sink throws leaves the callback too; nothing
\* is logged.
VariantOnSave(pageJson, sinkThrows) ==
    LET templateObject == JSONParse(pageJson) IN
    IF templateObject = SyntaxError
    THEN [called |-> FALSE, doc |-> SyntaxError, logged |-> FALSE,
          escaped |-> TRUE]
    ELSE [called |-> TRUE, doc |-> templateObject, logged |-> FALSE,
          escaped |-> sinkThrows]

VariantMount(t, s, outcome) ==
    /\ ~mounted
    /\ runs = <<>>
    /\ mounted' = TRUE
    /\ props' = [template |-> t, onSave |-> s]
    /\ LET second == TemplateEffect(t, s, beeInstance, displayed, outcome) IN
       /\ runs' = <<InitializeEditor(t, s), second.run>>
       /\ displayed' = second.shown
    /\ UNCHANGED <<beeInstanceRef, instances, beeInstance, proxy, conversions>>
    /\ UNCHANGED saveVars
    /\ UNCHANGED appVars

VariantRender(t, s, outcome) ==
    /\ mounted
    /\ props.template # t \/ props.onSave # s
    /\ LET ran == props.template # t
           res == TemplateEffect(t, s, beeInstance, displayed, outcome)
           effectThrew == ran /\ res.run.threw
       IN
       /\ runs' = IF ran THEN Append(runs, res.run) ELSE runs
       /\ displayed' = IF effectThrew THEN NoDocument
                       ELSE IF ran THEN res.shown ELSE displayed
       /\ mounted' = ~effectThrew
       /\ props' = IF effectThrew THEN NoProps
                   ELSE [template |-> t, onSave |-> s]
       /\ beeInstance' = IF effectThrew THEN 0 ELSE beeInstance
       /\ unmountedRuns' = IF effectThrew THEN 1..(Len(runs) + 1)
                           ELSE unmountedRuns
    /\ UNCHANGED <<beeInstanceRef, instances, proxy, conversions>>
    /\ UNCHANGED <<template, currentTemplate, clicks>>
    /\ UNCHANGED saveVars

VariantFetchSettles(outcome) ==
    /\ mounted
    /\ runs[1].pc = "fetch"
    /\ runs' = [runs EXCEPT ![1] = InitializeAfterFetch(@, outcome)]
    /\ UNCHANGED <<mounted, props, beeInstanceRef, instances, displayed,
                   beeInstance, proxy, conversions>>
    /\ UNCHANGED saveVars
    /\ UNCHANGED appVars

VariantJsonSettles(outcome) ==
    /\ mounted
    /\ runs[1].pc = "json"
    /\ IF outcome = "ok"
       THEN LET res == InitializeAfterToken(runs[1], 1, Len(instances) + 1) IN
            /\ runs' = [runs EXCEPT ![1] = res.run]
            /\ instances' = Append(instances, res.bee)
       ELSE /\ runs' = [runs EXCEPT ![1].pc = "rejected", ![1].err = "body"]
            /\ UNCHANGED instances
    /\ UNCHANGED <<mounted, props, beeInstanceRef, displayed, beeInstance,
                   proxy, conversions>>
    /\ UNCHANGED saveVars
    /\ UNCHANGED appVars

VariantCreated ==
    /\ mounted
    /\ runs[1].pc = "create"
    /\ LET res == CreateCallback(runs[1], instances[runs[1].inst]) IN
       /\ runs' = [runs EXCEPT ![1] = res.run]
       /\ instances' = [instances EXCEPT ![runs[1].inst] = res.bee]
       /\ beeInstance' = res.state
    /\ UNCHANGED <<mounted, props, beeInstanceRef, displayed, proxy,
                   conversions>>
    /\ UNCHANGED saveVars
    /\ UNCHANGED appVars

VariantStartSettles(outcome) ==
    /\ mounted
    /\ runs[1].inst # 0
    /\ instances[runs[1].inst].status = "starting"
    /\ LET res == StartPromiseSettles(runs[1], instances[runs[1].inst],
                                      displayed, outcome) IN
       /\ runs' = [runs EXCEPT ![1] = res.run]
       /\ instances' = [instances EXCEPT ![runs[1].inst] = res.bee]
       /\ displayed' = res.shown
    /\ UNCHANGED <<mounted, props, beeInstanceRef, beeInstance, proxy,
                   conversions>>
    /\ UNCHANGED saveVars
    /\ UNCHANGED appVars

\* The started editor emits a save event; the onSave of its configuration
\* calls the sink the mount render captured.
VariantSaveEvent(pageJson, sinkThrows) ==
    /\ mounted
    /\ runs[1].inst # 0
    /\ instances[runs[1].inst].status = "started"
    /\ LET res == VariantOnSave(pageJson, sinkThrows) IN
       /\ sinkCalls' = IF res.called THEN sinkCalls + 1 ELSE sinkCalls
       /\ lastSink' = IF res.called
                      THEN [sink |-> instances[runs[1].inst].sink,
                            doc |-> res.doc, threw |-> sinkThrows,
                            escaped |-> res.escaped]
                      ELSE lastSink
       /\ parseErrors' = IF res.logged THEN parseErrors + 1 ELSE parseErrors
    /\ saveEvents' = saveEvents + 1
    /\ lastPayload' = pageJson
    /\ UNCHANGED <<mounted, props>>
    /\ UNCHANGED editorVars
    /\ UNCHANGED appVars
    /\ UNCHANGED serviceVars

NextTwoEffects ==
    \/ \E t \in Templates, s \in Sinks, o \in LoadOutcomes : VariantMount(t, s, o)
    \/ \E in \in RenderInputs :
           Len(runs) < MaxEffectRuns /\ VariantRender(in[1], in[2], in[3])
    \/ \E o \in FetchOutcomes : VariantFetchSettles(o)
    \/ \E o \in StartOutcomes : VariantJsonSettles(o)
    \/ VariantCreated
    \/ \E o \in StartOutcomes : VariantStartSettles(o)
    \/ \E in \in RebindInputs :
           saveEvents < MaxEffectSaves /\ VariantSaveEvent(in[1], in[2])

SpecTwoEffects == Init /\ [][NextTwoEffects]_vars

(***************************************************************************)
(* Vocabulary of the properties.                                           *)
(***************************************************************************)
Requests == {i \in 1..Len(runs) : runs[i].tmpl # NoTemplate}
IsFirstRequest(i) == i \in Requests /\ \A j \in Requests : i <= j
IsNextRequest(i, j) ==
    /\ j \in Requests
    /\ i < j
    /\ \A k \in Requests : ~(i < k /\ k < j)
Rendered == Len(runs') = Len(runs) + 1
AuthFailed(r) == r.resp \in {"notOk", "reject"}
StartFailed(r) == r.inst # 0 /\ instances[r.inst].status = "failed"
AcquirePending == \E i \in 1..Len(runs) : runs[i].pc \in {"fetch", "json"}

(***************************************************************************)
(* C1.  When the first request carries a template there is one             *)
(* acquire-and-start over the lifetime (one fetch, one construction, one   *)
(* start), and every later request with a template issues one load of its  *)
(* own template and no fetch.                                              *)
(***************************************************************************)
C1_OneAcquireThenLoads ==
    (Len(runs) > 0 /\ runs[1].tmpl # NoTemplate) =>
        /\ NumFetches <= 1
        /\ Len(instances) <= 1
        /\ NumStarts <= 1
        /\ \A i \in Requests :
               i > 1 => runs[i].target # 0 /\ ~Fetched(runs[i])

(***************************************************************************)
(* C2.  In every reachable state at most one editor instance has been      *)
(* constructed and at most one session token has been obtained.            *)
(***************************************************************************)
C2_AtMostOneInstanceAndToken ==
    /\ Len(instances) <= 1
    /\ NumTokens <= 1

(***************************************************************************)
(* C3.  Nothing guards the acquire-and-start sequence: a request that      *)
(* finds the handle absent issues a token fetch even while the sequence    *)
(* of an earlier request is pending, and every run whose token arrives     *)
(* constructs an instance of its own on the container and starts it.       *)
(***************************************************************************)
C3_ConcurrentAcquire ==
    [][/\ (Rendered /\ Last(runs').tmpl # NoTemplate /\ beeInstanceRef = 0)
            => Last(runs').pc = "fetch"
       /\ \A i \in 1..Len(runs) :
            (runs[i].pc = "json" /\ runs'[i].pc = "start")
                => /\ Len(instances') = Len(instances) + 1
                   /\ runs'[i].inst = Len(instances')
                   /\ Last(instances').container = Container
                   /\ Last(instances').status = "starting"]_vars

\* Two instances constructed by two runs, both started on the one container.
C3_TwoInstancesStarted ==
    \E i, j \in 1..Len(runs) :
        /\ i < j
        /\ runs[i].pc = "done" /\ runs[j].pc = "done"
        /\ runs[i].inst # runs[j].inst
        /\ instances[runs[i].inst].status = "started"
        /\ instances[runs[j].inst].status = "started"
        /\ instances[runs[i].inst].container = instances[runs[j].inst].container

(***************************************************************************)
(* C4.  When the start of the first request rejects, no handle is stored,  *)
(* and the next request with a template fetches a token again instead of   *)
(* calling load.                                                           *)
(***************************************************************************)
C4_StartFailureLeavesNoHandle ==
    \A i \in 1..Len(runs) :
        (IsFirstRequest(i) /\ StartFailed(runs[i])) =>
            /\ (\A j \in Requests : j # i => ~Fetched(runs[j]))
                   => beeInstanceRef = 0
            /\ \A j \in Requests :
                   IsNextRequest(i, j) => Fetched(runs[j]) /\ runs[j].target = 0

(***************************************************************************)
(* C5.  When the fetch of the first request rejects or answers not ok,     *)
(* that run obtains no token, constructs nothing and calls neither start   *)
(* nor load; while no other request has fetched, the handle is absent and  *)
(* nothing is shown; and the next request with a template fetches a token  *)
(* and, once it has one, constructs an instance with it and starts it      *)
(* with its own template.                                                  *)
(***************************************************************************)
C5_AuthFailureThenFreshAcquire ==
    \A i \in 1..Len(runs) :
        (IsFirstRequest(i) /\ AuthFailed(runs[i])) =>
            /\ runs[i].pc = "caught"
            /\ runs[i].token = 0 /\ runs[i].inst = 0 /\ runs[i].target = 0
            /\ (\A j \in Requests : j # i => ~Fetched(runs[j]))
                   => /\ beeInstanceRef = 0
                      /\ instances = <<>>
                      /\ displayed = NoDocument
            /\ \A j \in Requests :
                   IsNextRequest(i, j) =>
                       /\ Fetched(runs[j])
                       /\ runs[j].target = 0
                       /\ runs[j].token # 0 =>
                              /\ runs[j].inst # 0
                              /\ instances[runs[j].inst].token = runs[j].token
                              /\ instances[runs[j].inst].doc = runs[j].tmpl

\* The first request failed to authenticate and the next one initialized.
C5_RetrySucceeded ==
    \E i, j \in 1..Len(runs) :
        /\ IsFirstRequest(i) /\ AuthFailed(runs[i])
        /\ IsNextRequest(i, j)
        /\ runs[j].pc = "done"
        /\ beeInstanceRef = runs[j].inst
        /\ displayed = runs[j].tmpl

(***************************************************************************)
(* C6.  Every failed request ends with an error delivered to its caller:   *)
(* the promise of the run rejects.                                         *)
(***************************************************************************)
C6_EveryFailureDelivered ==
    \A i \in 1..Len(runs) :
        (AuthFailed(runs[i]) \/ StartFailed(runs[i]) \/ runs[i].threw)
            => PromiseRejected(runs[i])

(***************************************************************************)
(* C6, amended.  A failure of the acquisition or of start is caught        *)
(* inside setupEditor and logged, and the run then completes normally;     *)
(* only a load that throws escapes, as a rejection of the run's promise,   *)
(* and that one is not logged by the component.                            *)
(***************************************************************************)
C6_FailuresLoggedOrRejected ==
    \A i \in 1..Len(runs) :
        /\ (AuthFailed(runs[i]) \/ StartFailed(runs[i]))
               => Logged(runs[i]) /\ PromiseResolved(runs[i])
        /\ runs[i].threw => PromiseRejected(runs[i]) /\ ~Logged(runs[i])

\* One run failed to authenticate, one failed to start, one load threw.
C6_AllThreeFailures ==
    \E i, j, k \in 1..Len(runs) :
        AuthFailed(runs[i]) /\ StartFailed(runs[j]) /\ runs[k].threw

(***************************************************************************)
(* C7.  A request without a template is a no-op in every state: the        *)
(* handle, the instances, the document shown and the earlier runs are      *)
(* unchanged, and the run fetches nothing and calls neither start nor      *)
(* load.                                                                   *)
(***************************************************************************)
C7_EmptyRequestIsNoOp ==
    [][(Rendered /\ Last(runs').tmpl = NoTemplate) =>
           /\ UNCHANGED <<beeInstanceRef, instances, displayed>>
           /\ SubSeq(runs', 1, Len(runs)) = runs
           /\ Last(runs').pc = "warned"
           /\ ~Fetched(Last(runs'))
           /\ Last(runs').target = 0
           /\ Last(runs').inst = 0]_vars

\* An empty request arrived after the editor was started and shows a document.
C7_EmptyRequestWhenReady ==
    /\ Len(runs) >= 2
    /\ Last(runs).tmpl = NoTemplate
    /\ beeInstanceRef # 0
    /\ instances[beeInstanceRef].status = "started"
    /\ displayed \in Templates

(***************************************************************************)
(* C8.  After a load has failed the controller keeps the handle the load   *)
(* was called on, and the next request with a template calls load on that  *)
(* same handle and fetches nothing.                                        *)
(***************************************************************************)
C8_LoadFailureKeepsHandle ==
    /\ [][\A i \in 1..Len(runs) :
              runs[i].threw => beeInstanceRef' = runs[i].target]_vars
    /\ [](\A i, j \in 1..Len(runs) :
              (runs[i].threw /\ IsNextRequest(i, j))
                  => runs[j].target = runs[i].target /\ ~Fetched(runs[j]))

(***************************************************************************)
(* C10.  Once every request of a sequence of requests with templates has   *)
(* completed successfully, the document shown is the one of the request    *)
(* issued last.                                                            *)
(***************************************************************************)
C10_LastRequestShown ==
    (/\ Len(runs) > 0
     /\ \A i \in 1..Len(runs) :
            runs[i].tmpl # NoTemplate /\ runs[i].pc \in {"done", "loaded"})
        => displayed = Last(runs).tmpl

(***************************************************************************)
(* C9.  A save event whose payload is valid JSON invokes the sink of the   *)
(* configuration once, with the parsed document; a payload that is not     *)
(* valid invokes no sink and is reported as a parse failure; the handle,   *)
(* the runs, the instances and the document shown are untouched.           *)
(***************************************************************************)
C9_SaveForwardsParsedOrReports ==
    [][saveEvents' = saveEvents + 1 =>
           /\ UNCHANGED <<beeInstanceRef, runs, instances, displayed>>
           /\ IF JSONParse(lastPayload') # SyntaxError
              THEN /\ sinkCalls' = sinkCalls + 1
                   /\ lastSink'.doc = JSONParse(lastPayload')
                   /\ \E k \in 1..Len(instances) :
                          /\ instances[k].status = "started"
                          /\ lastSink'.sink = instances[k].sink
              ELSE /\ sinkCalls' = sinkCalls
                   /\ lastSink' = lastSink
                   /\ parseErrors' = parseErrors + 1]_vars

\* A valid payload has reached the sink.
C9_ValidSaveForwarded ==
    /\ saveEvents > 0
    /\ JSONParse(lastPayload) # SyntaxError
    /\ sinkCalls = saveEvents
    /\ lastSink.doc = JSONParse(lastPayload)
    /\ parseErrors = 0

(***************************************************************************)
(* C11.  Once beeInstanceRef holds an instance it is never reset to null   *)
(* and never replaced by another instance.                                 *)
(***************************************************************************)
C11_HandleNeverReplaced ==
    [][beeInstanceRef # 0 => beeInstanceRef' = beeInstanceRef]_vars

(***************************************************************************)
(* C12.  The handle is stored only after start has succeeded on it: a      *)
(* handle that is present is an instance whose start has completed, so     *)
(* load is never called on an instance whose start is pending or failed.   *)
(***************************************************************************)
C12_HandleImpliesStarted ==
    beeInstanceRef # 0 => instances[beeInstanceRef].status = "started"

(***************************************************************************)
(* C13.  The controller retries nothing on its own: a run issues at most   *)
(* one token fetch, a fetch or a load is issued only in the step of a      *)
(* render, a run without template issues nothing, and neither the number   *)
(* of fetches nor the number of start and load calls exceeds the number    *)
(* of requests with a template.                                            *)
(***************************************************************************)
RECURSIVE SumFetches(_, _)
SumFetches(rs, k) == IF k = 0 THEN 0 ELSE rs[k].fetches + SumFetches(rs, k - 1)
FetchCalls == SumFetches(runs, Len(runs))

C13_NoAutomaticRetry ==
    [][/\ \A i \in 1..Len(runs') : runs'[i].fetches <= 1
       /\ \A i \in 1..Len(runs') :
              runs'[i].tmpl = NoTemplate =>
                  runs'[i].fetches = 0 /\ runs'[i].target = 0 /\ runs'[i].inst = 0
       /\ FetchCalls' <= Cardinality(Requests')
       /\ NumStarts' + NumLoads' <= Cardinality(Requests')
       /\ (FetchCalls' > FetchCalls \/ NumLoads' > NumLoads) => Rendered]_vars

\* A request failed to authenticate, and only a later request fetched again.
C13_FailedThenRequestedAgain ==
    \E i, j \in 1..Len(runs) :
        /\ i < j
        /\ AuthFailed(runs[i]) /\ runs[i].pc = "caught" /\ runs[i].fetches = 1
        /\ runs[j].fetches = 1
        /\ FetchCalls = 2

(***************************************************************************)
(* C14.  The document passed to start or to load is the template of the    *)
(* request that makes the call, also when other requests with other        *)
(* templates arrived while that request awaited its token; the template a  *)
(* run captured never changes.                                             *)
(***************************************************************************)
C14_OwnTemplatePassed ==
    [][/\ \A i \in 1..Len(runs) : runs'[i].tmpl = runs[i].tmpl
       /\ \A i \in 1..Len(runs') :
              runs'[i].inst # 0 => instances'[runs'[i].inst].doc = runs'[i].tmpl
       /\ (Rendered /\ Last(runs').pc = "loaded")
              => displayed' = Last(runs').tmpl
       /\ \A i \in 1..Len(runs) :
              (runs[i].pc = "start" /\ runs'[i].pc = "done")
                  => displayed' = runs[i].tmpl]_vars

\* A run started the editor with its own template although a request with
\* another template had arrived while it was waiting for the token.
C14_OtherRequestWhileWaiting ==
    \E i, j \in 1..Len(runs) :
        /\ i < j
        /\ runs[i].pc = "done"
        /\ Fetched(runs[j])
        /\ runs[j].tmpl \in Templates \ {runs[i].tmpl}
        /\ runs[i].inst > runs[j].inst
        /\ instances[runs[i].inst].doc = runs[i].tmpl

(***************************************************************************)
(* C16.  start is called at most once in the lifetime of the component.    *)
(***************************************************************************)
C16_StartAtMostOnce ==
    Cardinality({i \in 1..Len(runs) : runs[i].pc \in {"start", "done"}
                                        \/ StartFailed(runs[i])}) <= 1

(***************************************************************************)
(* C17.  The steps of the initialization happen in the order authenticate, *)
(* create instance, start: a token is obtained only from an ok response,   *)
(* an instance is constructed only with the token its run obtained, start  *)
(* is awaited only on a constructed instance, and a run whose fetch or     *)
(* body read failed constructs and starts nothing.                         *)
(***************************************************************************)
C17_AuthenticateCreateStart ==
    \A i \in 1..Len(runs) :
        /\ runs[i].pc = "json" => runs[i].resp = "ok"
        /\ runs[i].token # 0 => runs[i].resp = "ok"
        /\ runs[i].inst # 0 =>
               /\ runs[i].token # 0
               /\ instances[runs[i].inst].token = runs[i].token
        /\ runs[i].pc \in {"start", "done"} => runs[i].inst # 0
        /\ (AuthFailed(runs[i]) \/ runs[i].err = "body") =>
               /\ runs[i].pc = "caught"
               /\ runs[i].token = 0
               /\ runs[i].inst = 0

\* One run went through the three steps and another stopped at a failed step.
C17_OneInitializedOneStopped ==
    \E i, j \in 1..Len(runs) :
        /\ runs[i].pc = "done"
        /\ runs[i].token # 0
        /\ instances[runs[i].inst].token = runs[i].token
        /\ runs[j].err = "body"

(***************************************************************************)
(* C18.  A render in which the template is the same as in the render       *)
(* before, only onSave being another function, issues no fetch, no start   *)
(* and no load.                                                            *)
(***************************************************************************)
C18_OnlyTemplateChangeCalls ==
    [][(mounted /\ Rendered /\ props'.template = props.template) =>
           /\ Last(runs').target = 0
           /\ Last(runs').fetches = 0]_vars

(***************************************************************************)
(* C15.  When the authority rejects the credentials or cannot be reached,  *)
(* the fetch of /proxy/bee-auth fails for the component, so an instance is *)
(* constructed only by a run whose token the authority granted.            *)
(***************************************************************************)
C15_NoInstanceFromRejectedAuth ==
    \A i \in 1..Len(runs) : runs[i].inst # 0 => runs[i].authority = "granted"

(***************************************************************************)
(* C19.  Whenever the editor is mounted and no run is waiting for a fetch, *)
(* a body or a start, the template numbered currentTemplate is the         *)
(* document the editor displays.                                           *)
(***************************************************************************)
C19_IndicatorShowsDisplayed ==
    (mounted /\ \A i \in 1..Len(runs) : ~Pending(runs[i]))
        => displayed = TemplateData(currentTemplate)

(***************************************************************************)
(* C20.  A conversion call sends one request and ends in one of two ways:  *)
(* with an ok response it returns the parsed body, with a response that is *)
(* not ok or a rejected request it throws after logging.                   *)
(***************************************************************************)
ConvertEnded(c) == c.pc \in {"returned", "thrown"}

C20_OkReturnsElseThrows ==
    \A k \in 1..Len(conversions) :
        LET c == conversions[k] IN
        /\ c.requests = 1
        /\ (c.pc \notin {"fetch", "text", "json"}) => ConvertEnded(c)
        /\ (ConvertEnded(c) /\ c.response.kind = "response"
                /\ ResponseOk(c.response.status)) =>
               /\ c.pc = "returned"
               /\ c.result = JSONParse(c.response.body)
               /\ c.result # SyntaxError
        /\ (ConvertEnded(c) /\ ~(c.response.kind = "response"
                /\ ResponseOk(c.response.status))) =>
               /\ c.pc = "thrown"
               /\ c.logged = 1

(***************************************************************************)
(* C20, as the code has it.  A conversion call sends one request; it       *)
(* returns the parsed body exactly when the response is ok and its body is *)
(* JSON; in every other case (rejected request, response not ok, body of   *)
(* an ok response that is no JSON) it logs once and throws, and returns    *)
(* nothing.                                                                *)
(***************************************************************************)
C20_ParsedBodyOrThrow ==
    \A k \in 1..Len(conversions) :
        LET c == conversions[k]
            okJson == /\ c.response.kind = "response"
                      /\ ResponseOk(c.response.status)
                      /\ JSONParse(c.response.body) # SyntaxError
        IN
        /\ c.requests = 1
        /\ c.pc \in {"fetch", "text", "json", "returned", "thrown"}
        /\ c.pc = "returned" =>
               /\ okJson
               /\ c.result = JSONParse(c.response.body)
               /\ c.logged = 0 /\ c.error = "none"
        /\ c.pc = "thrown" =>
               /\ ~okJson
               /\ c.logged = 1 /\ c.error # "none"
               /\ c.result = SyntaxError
        /\ (ConvertEnded(c) /\ okJson) => c.pc = "returned"

\* An ok response with a body that is no JSON: logged and thrown; another
\* call returned the parsed body.
C20_OkButUnparsable ==
    \E k, m \in 1..Len(conversions) :
        /\ conversions[k].pc = "thrown"
        /\ conversions[k].response.kind = "response"
        /\ ResponseOk(conversions[k].response.status)
        /\ conversions[k].error = "SyntaxError"
        /\ conversions[k].logged = 1
        /\ conversions[m].pc = "returned"
        /\ conversions[m].result = JArray(<<>>)

(***************************************************************************)
(* C23.  A run of setupEditor makes at most one display call: it calls     *)
(* load or it calls start, never both.  A fetch is issued only by a run    *)
(* that found the handle absent; a run that found the handle present       *)
(* fetches nothing, obtains no token and constructs no instance.           *)
(***************************************************************************)
C23_LoadOrStartNeverBoth ==
    [][/\ \A i \in 1..Len(runs') :
              /\ ~(runs'[i].target # 0 /\ runs'[i].inst # 0)
              /\ runs'[i].target # 0 =>
                     /\ runs'[i].fetches = 0
                     /\ runs'[i].token = 0
                     /\ ~Fetched(runs'[i])
              /\ runs'[i].fetches > 0 => runs'[i].target = 0
       /\ Rendered =>
              /\ beeInstanceRef # 0 =>
                     /\ Last(runs').fetches = 0
                     /\ Last(runs').tmpl # NoTemplate
                            => Last(runs').target = beeInstanceRef
              /\ Last(runs').fetches > 0 => beeInstanceRef = 0
              /\ beeInstanceRef = 0 => Last(runs').target = 0]_vars

\* One run fetched and started, a later one found the handle and only loaded.
C23_OneStartedOneLoaded ==
    \E i, j \in 1..Len(runs) :
        /\ runs[i].pc = "done" /\ runs[i].fetches = 1 /\ runs[i].target = 0
        /\ runs[j].pc = "loaded" /\ runs[j].target = runs[i].inst
        /\ runs[j].fetches = 0 /\ runs[j].inst = 0

(***************************************************************************)
(* C24.  In App, once the mount effect has set the template it is never    *)
(* null again, whatever buttons are clicked: the editor is mounted exactly *)
(* while the template is set, it is never unmounted, and a handle it holds *)
(* is never dropped.                                                       *)
(***************************************************************************)
C24_EditorStaysMounted ==
    [][/\ template # NoTemplate => template' # NoTemplate
       /\ mounted => mounted'
       /\ mounted' <=> template' # NoTemplate
       /\ beeInstanceRef # 0 => beeInstanceRef' # 0]_vars

\* Both buttons were clicked, three runs were made, the editor holds a handle.
C24_ClickedBothButtons ==
    /\ mounted
    /\ clicks >= 2
    /\ Len(runs) = 3
    /\ beeInstanceRef # 0
    /\ template = "T1"

(***************************************************************************)
(* C25.  In App the two state variables agree once the mount effect has    *)
(* run: currentTemplate is 1 exactly when template is template 1 and 2     *)
(* exactly when it is template 2; they disagree only in the initial state  *)
(* (template null, currentTemplate 1, no click yet).                       *)
(***************************************************************************)
C25_NumberMatchesTemplate ==
    /\ currentTemplate \in TemplateNumbers
    /\ template = NoTemplate => (currentTemplate = 1 /\ ~mounted /\ clicks = 0)
    /\ template # NoTemplate =>
           /\ currentTemplate = 1 <=> template = "T1"
           /\ currentTemplate = 2 <=> template = "T2"

\* Template 2 was loaded by a click.
C25_SecondTemplateLoaded ==
    template = "T2" /\ currentTemplate = 2 /\ clicks >= 1 /\ props.template = "T2"

(***************************************************************************)
(* C26.  A click on the button of the template that is already current     *)
(* changes no state of App and runs no effect of the editor: no run of     *)
(* setupEditor, no load, no fetch, the same props, the same document.      *)
(***************************************************************************)
C26_SameButtonIsNoOp ==
    [][(clicks' = clicks + 1 /\ template' = template)
           => /\ currentTemplate' = currentTemplate
              /\ UNCHANGED <<mounted, props, beeInstanceRef, runs,
                             instances, displayed>>]_vars

\* The editor shows template 1 after its one run, and the button of
\* template 1 has been clicked.
C26_ClickedCurrentButton ==
    /\ mounted
    /\ clicks >= 1
    /\ Len(runs) = 1
    /\ runs[1].pc = "done"
    /\ displayed = "T1"
    /\ currentTemplate = 1

(***************************************************************************)
(* C27.  The callbacks of an editor are bound once, in the configuration   *)
(* its run passed to start: the sink of an instance is the onSave its      *)
(* constructing run captured and never changes, a load changes no          *)
(* instance, and every save event that reaches a sink reaches the sink of  *)
(* a run that initialized a started editor, whatever onSave the latest     *)
(* render carried.                                                         *)
(***************************************************************************)
C27_CallbacksBoundAtStart ==
    [][/\ \A k \in 1..Len(instances) : instances'[k].sink = instances[k].sink
       /\ \A i \in 1..Len(runs') :
              runs'[i].inst # 0 => instances'[runs'[i].inst].sink = runs'[i].sink
       /\ (Rendered /\ Last(runs').target # 0) => instances' = instances
       /\ (saveEvents' = saveEvents + 1 /\ sinkCalls' > sinkCalls) =>
              \E i \in 1..Len(runs) :
                  /\ runs[i].inst # 0
                  /\ instances[runs[i].inst].status = "started"
                  /\ lastSink'.sink = runs[i].sink]_vars

\* A save event reached the sink of the initializing run after a later
\* render, with another onSave, had loaded a template.
C27_SavedAfterOnSaveChanged ==
    /\ sinkCalls = 1
    /\ Len(runs) = 2
    /\ runs[2].pc = "loaded"
    /\ runs[2].sink # runs[1].sink
    /\ props.onSave = runs[2].sink
    /\ lastSink.sink = runs[1].sink

(***************************************************************************)
(* C28.  When the sink throws while handling a document that parsed, the   *)
(* save callback catches it like a parse failure: one 'Failed to parse'    *)
(* report, no exception leaves the callback, the sink was invoked once,    *)
(* and the editor's state is untouched.                                    *)
(***************************************************************************)
C28_SinkExceptionCaught ==
    [][(saveEvents' = saveEvents + 1 /\ sinkCalls' > sinkCalls
            /\ lastSink'.threw) =>
           /\ JSONParse(lastPayload') # SyntaxError
           /\ lastSink'.doc = JSONParse(lastPayload')
           /\ sinkCalls' = sinkCalls + 1
           /\ parseErrors' = parseErrors + 1
           /\ ~lastSink'.escaped
           /\ UNCHANGED <<beeInstanceRef, runs, instances, displayed>>]_vars

\* The sink threw on a valid document and the failure was reported once.
C28_SinkThrewOnValidDocument ==
    /\ saveEvents = 1
    /\ sinkCalls = 1
    /\ lastSink.threw
    /\ JSONParse(lastPayload) # SyntaxError
    /\ parseErrors = 1

(***************************************************************************)
(* C21.  Under fairness of the awaits, a run that found the handle absent  *)
(* and issued its fetch eventually either fails (the fetch, the body read  *)
(* or the start failed) or completes its start with the handle stored and  *)
(* its own template displayed.                                             *)
(***************************************************************************)
RunFailed(r) ==
    r.pc = "caught" /\ (AuthFailed(r) \/ r.err = "body" \/ StartFailed(r))
RunReady(r) ==
    /\ r.pc = "done"
    /\ r.resp = "ok"
    /\ instances[r.inst].status = "started"
    /\ beeInstanceRef # 0
    /\ displayed = r.tmpl

C21_AcquireLeadsToReady ==
    \A i \in 1..MaxLiveRuns :
        (i <= Len(runs) /\ runs[i].pc = "fetch")
            ~> (i <= Len(runs) /\ (RunFailed(runs[i]) \/ RunReady(runs[i])))

\* The first request went through fetch and start and shows its template.
C21_FirstRequestReady ==
    /\ Len(runs) >= 1
    /\ runs[1].tmpl # NoTemplate
    /\ RunReady(runs[1])
    /\ beeInstanceRef = runs[1].inst

(***************************************************************************)
(* C22.  In the two-effect variant, once initializeEditor has completed,   *)
(* the start it issued has succeeded and nothing has failed, the editor    *)
(* displays the template of the latest render that carried one, also when  *)
(* the template changed while the instance was being created.              *)
(***************************************************************************)
C22_LatestTemplateShown ==
    (/\ mounted
     /\ runs[1].pc = "done"
     /\ instances[runs[1].inst].status = "started"
     /\ \A i \in 1..Len(runs) : runs[i].pc # "rejected"
     /\ props.template # NoTemplate)
        => displayed = props.template

====
